---- MODULE Spec2Model ----
(***************************************************************************)
(* A model of the cross-chain name-service handler contract: its storage   *)
(* items (state.rs), its execute entry point and handlers (contract.rs,    *)
(* execute.rs), its reply entry point (reply.rs) and the ABI and packing   *)
(* helpers (helper.rs).  Byte buffers (Binary, String) are sequences of    *)
(* numbers in 0..255; a String is the sequence of its UTF-8 bytes.         *)
(***************************************************************************)
EXTENDS Integers, Sequences, FiniteSets, TLC

(***************************************************************************)
(* Text literals of the source and of the inputs, as UTF-8 byte sequences.  *)
(***************************************************************************)
\* 'execute_register, name: '
TxtRegisterName ==
    <<101, 120, 101, 99, 117, 116, 101, 95, 114, 101, 103, 105, 115, 116,
    101, 114, 44, 32, 110, 97, 109, 101, 58, 32>>

\* ', owner: '
TxtOwner ==
    <<44, 32, 111, 119, 110, 101, 114, 58, 32>>

\* ', to: '
TxtTo ==
    <<44, 32, 116, 111, 58, 32>>

\* 'Ack from handler contract:\naddress: '
TxtAckAddress ==
    <<65, 99, 107, 32, 102, 114, 111, 109, 32, 104, 97, 110, 100, 108, 101,
    114, 32, 99, 111, 110, 116, 114, 97, 99, 116, 58, 10, 97, 100, 100, 114,
    101, 115, 115, 58, 32>>

\* '\nrequest_identifier: '
TxtAckIdentifier ==
    <<10, 114, 101, 113, 117, 101, 115, 116, 95, 105, 100, 101, 110, 116,
    105, 102, 105, 101, 114, 58, 32>>

\* '\nexec_status:'
TxtAckStatus ==
    <<10, 101, 120, 101, 99, 95, 115, 116, 97, 116, 117, 115, 58>>

\* '\nexec_data:'
TxtAckData ==
    <<10, 101, 120, 101, 99, 95, 100, 97, 116, 97, 58>>

\* 'true'
TxtTrue ==
    <<116, 114, 117, 101>>

\* 'false'
TxtFalse ==
    <<102, 97, 108, 115, 101>>

\* 'Binary('
TxtBinaryOpen ==
    <<66, 105, 110, 97, 114, 121, 40>>

\* ')'
TxtBinaryClose ==
    <<41>>

\* 'handle_i_send_reply, request_identifier: '
TxtReplyOk ==
    <<104, 97, 110, 100, 108, 101, 95, 105, 95, 115, 101, 110, 100, 95, 114,
    101, 112, 108, 121, 44, 32, 114, 101, 113, 117, 101, 115, 116, 95, 105,
    100, 101, 110, 116, 105, 102, 105, 101, 114, 58, 32>>

\* '{"register":{"name":"'
JsonRegisterOpen ==
    <<123, 34, 114, 101, 103, 105, 115, 116, 101, 114, 34, 58, 123, 34, 110,
    97, 109, 101, 34, 58, 34>>

\* '{"transfer":{"name":"'
JsonTransferOpen ==
    <<123, 34, 116, 114, 97, 110, 115, 102, 101, 114, 34, 58, 123, 34, 110,
    97, 109, 101, 34, 58, 34>>

\* ',"to":"'
JsonTransferTo ==
    <<44, 34, 116, 111, 34, 58, 34>>

\* '}}'
JsonClose ==
    <<125, 125>>

\* '18446744073709551615'
U64MaxDigits ==
    <<49, 56, 52, 52, 54, 55, 52, 52, 48, 55, 51, 55, 48, 57, 53, 53, 49, 54,
    49, 53>>

\* 'ABCDEFGHIJKLMNOPQRSTUVWXYZabcdefghijklmnopqrstuvwxyz0123456789+/'
Base64Alphabet ==
    <<65, 66, 67, 68, 69, 70, 71, 72, 73, 74, 75, 76, 77, 78, 79, 80, 81, 82,
    83, 84, 85, 86, 87, 88, 89, 90, 97, 98, 99, 100, 101, 102, 103, 104, 105,
    106, 107, 108, 109, 110, 111, 112, 113, 114, 115, 116, 117, 118, 119,
    120, 121, 122, 48, 49, 50, 51, 52, 53, 54, 55, 56, 57, 43, 47>>

\* '0123456789abcdef'
HexAlphabet ==
    <<48, 49, 50, 51, 52, 53, 54, 55, 56, 57, 97, 98, 99, 100, 101, 102>>

\* 'alice'
AddrAlice ==
    <<97, 108, 105, 99, 101>>

\* 'bob'
AddrBob ==
    <<98, 111, 98>>

\* 'contract0'
AddrContract ==
    <<99, 111, 110, 116, 114, 97, 99, 116, 48>>

\* 'gateway'
AddrGateway ==
    <<103, 97, 116, 101, 119, 97, 121>>

\* 'abc'
NameAbc ==
    <<97, 98, 99>>

\* 'x-1'
NameXyz ==
    <<120, 45, 49>>

\* 'ab'
NameShort ==
    <<97, 98>>

\* 'aBc'
NameUpper ==
    <<97, 66, 99>>

\* 'aaaaaaaaaaaaaaaaaaaaaaaaaaaaaaaaaaaaaaaaaaaaaaaaaaaaaaaaaaaaaaaaa'
NameLong ==
    <<97, 97, 97, 97, 97, 97, 97, 97, 97, 97, 97, 97, 97, 97, 97, 97, 97, 97,
    97, 97, 97, 97, 97, 97, 97, 97, 97, 97, 97, 97, 97, 97, 97, 97, 97, 97,
    97, 97, 97, 97, 97, 97, 97, 97, 97, 97, 97, 97, 97, 97, 97, 97, 97, 97,
    97, 97, 97, 97, 97, 97, 97, 97, 97, 97, 97>>

\* 'token'
DenomToken ==
    <<116, 111, 107, 101, 110>>

\* 'smokin'
DenomOther ==
    <<115, 109, 111, 107, 105, 110>>

\* 'H'
HandlerH ==
    <<72>>

\* '80001'
ChainId ==
    <<56, 48, 48, 48, 49>>

\* '0xab'
RemoteSender ==
    <<48, 120, 97, 98>>

\* 'alice'
RemoteSender2 ==
    <<97, 108, 105, 99, 101>>

\* '{"i_ack":{"request_identifier":7,"exec_status":true,"exec_data":""}}'
JsonIAckInner ==
    <<123, 34, 105, 95, 97, 99, 107, 34, 58, 123, 34, 114, 101, 113, 117,
      101, 115, 116, 95, 105, 100, 101, 110, 116, 105, 102, 105, 101, 114,
      34, 58, 55, 44, 34, 101, 120, 101, 99, 95, 115, 116, 97, 116, 117,
      115, 34, 58, 116, 114, 117, 101, 44, 34, 101, 120, 101, 99, 95, 100,
      97, 116, 97, 34, 58, 34, 34, 125, 125>>

\* '{"i_receive":{"src_chain_id":"c1","request_sender":"alice","packet":""}}'
JsonIReceiveInner ==
    <<123, 34, 105, 95, 114, 101, 99, 101, 105, 118, 101, 34, 58, 123, 34,
      115, 114, 99, 95, 99, 104, 97, 105, 110, 95, 105, 100, 34, 58, 34,
      99, 49, 34, 44, 34, 114, 101, 113, 117, 101, 115, 116, 95, 115, 101,
      110, 100, 101, 114, 34, 58, 34, 97, 108, 105, 99, 101, 34, 44, 34,
      112, 97, 99, 107, 101, 116, 34, 58, 34, 34, 125, 125>>

\* '{"i_send":{"version":1}}'
JsonISendInner ==
    <<123, 34, 105, 95, 115, 101, 110, 100, 34, 58, 123, 34, 118, 101, 114,
      115, 105, 111, 110, 34, 58, 49, 125, 125>>

\* '{}'
JsonGarbage ==
    <<123, 125>>

\* '18446744073709551616'
JsonU64Overflow ==
    <<49, 56, 52, 52, 54, 55, 52, 52, 48, 55, 51, 55, 48, 57, 53, 53, 49, 54,
    49, 54>>

\* '07'
JsonLeadingZero ==
    <<48, 55>>

\* '-1'
JsonNegative ==
    <<45, 49>>

\* 'Missing reply data'
TxtMissingReplyData ==
    <<77, 105, 115, 115, 105, 110, 103, 32, 114, 101, 112, 108, 121, 32, 100,
    97, 116, 97>>

\* 'gateway reverted'
TxtGatewayReverted ==
    <<103, 97, 116, 101, 119, 97, 121, 32, 114, 101, 118, 101, 114, 116, 101,
    100>>

\* '{"address":'
JsonAddressOpen ==
    <<123, 34, 97, 100, 100, 114, 101, 115, 115, 34, 58>>

\* 'null'
JsonNull ==
    <<110, 117, 108, 108>>

\* '{"purchase_price":'
JsonPurchasePrice ==
    <<123, 34, 112, 117, 114, 99, 104, 97, 115, 101, 95, 112, 114, 105, 99,
    101, 34, 58>>

\* ',"transfer_price":'
JsonTransferPrice ==
    <<44, 34, 116, 114, 97, 110, 115, 102, 101, 114, 95, 112, 114, 105, 99,
    101, 34, 58>>

\* '{"denom":"'
JsonDenom ==
    <<123, 34, 100, 101, 110, 111, 109, 34, 58, 34>>

\* '","amount":"'
JsonAmount ==
    <<34, 44, 34, 97, 109, 111, 117, 110, 116, 34, 58, 34>>

\* '"}'
JsonCoinClose ==
    <<34, 125>>

(***************************************************************************)
(* Option and Result values.                                               *)
(***************************************************************************)
None == <<>>

Some(v) == <<v>>

IsSome(o) == Len(o) = 1

Unwrap(o) == o[1]

Ok(v) == [ok |-> TRUE, v |-> v]

Err(e) == [ok |-> FALSE, e |-> e]

(***************************************************************************)
(* Byte-sequence helpers.                                                  *)
(***************************************************************************)
Zeros(n) == [i \in 1..n |-> 0]

IsPrefix(p, s) == Len(p) <= Len(s) /\ SubSeq(s, 1, Len(p)) = p

Drop(s, n) == SubSeq(s, n + 1, Len(s))

\* format!("{}", n) of an unsigned integer: its decimal digits in ASCII
RECURSIVE Decimal(_)
Decimal(n) ==
    IF n < 10 THEN <<48 + n>> ELSE Decimal(n \div 10) \o <<48 + (n % 10)>>

\* format!("{}", b) of a bool
FmtBool(b) == IF b THEN TxtTrue ELSE TxtFalse

\* {:02x} of every byte, as Binary's Debug implementation prints them
Hex(b) ==
    [i \in 1..(2 * Len(b)) |->
        IF i % 2 = 1 THEN HexAlphabet[(b[(i + 1) \div 2] \div 16) + 1]
        ELSE HexAlphabet[(b[i \div 2] % 16) + 1]]

\* format!("{:?}", binary)
FmtBinaryDebug(b) == TxtBinaryOpen \o Hex(b) \o TxtBinaryClose

\* the 6-bit group k (0..3) of the 3-byte group starting at byte i of b,
\* a byte past the end counting as 0
Sextet(b, i, k) ==
    LET b1 == b[i]
        b2 == IF i + 1 <= Len(b) THEN b[i + 1] ELSE 0
        b3 == IF i + 2 <= Len(b) THEN b[i + 2] ELSE 0
    IN CASE k = 0 -> b1 \div 4
         [] k = 1 -> ((b1 % 4) * 16) + (b2 \div 16)
         [] k = 2 -> ((b2 % 16) * 4) + (b3 \div 64)
         [] k = 3 -> b3 % 64

\* Binary::to_base64: standard alphabet, '=' padding
to_base64(b) ==
    [j \in 1..(4 * ((Len(b) + 2) \div 3)) |->
        LET i == 3 * ((j - 1) \div 4) + 1
            k == (j - 1) % 4
        IN IF i + k > Len(b) + 1 THEN 61
           ELSE Base64Alphabet[Sextet(b, i, k) + 1]]

(***************************************************************************)
(* The ABI codec (ethabi encode / decode as helper.rs calls them).         *)
(***************************************************************************)
\* one 32-byte big-endian word holding a length or an offset
Word(n) ==
    Zeros(28) \o <<(n \div 16777216) % 256, (n \div 65536) % 256,
                   (n \div 256) % 256, n % 256>>

PaddedLen(n) == ((n + 31) \div 32) * 32

PadRight(b) == b \o Zeros(PaddedLen(Len(b)) - Len(b))

\* the tail of one dynamic token (Token::String or Token::Bytes): its
\* length word, then its bytes right-padded to a multiple of 32
AbiTail(b) == Word(Len(b)) \o PadRight(b)

RECURSIVE AbiHeads(_, _)
AbiHeads(tokens, offset) ==
    IF tokens = <<>> THEN <<>>
    ELSE Word(offset)
         \o AbiHeads(Tail(tokens), offset + Len(AbiTail(tokens[1])))

RECURSIVE AbiTails(_)
AbiTails(tokens) ==
    IF tokens = <<>> THEN <<>>
    ELSE AbiTail(tokens[1]) \o AbiTails(Tail(tokens))

\* ethabi::encode of a list of dynamic tokens: one offset word per token,
\* then the tails in order
encode(tokens) == AbiHeads(tokens, 32 * Len(tokens)) \o AbiTails(tokens)

\* ethabi peek_32_bytes: the word at a byte offset, or an error
peek_32_bytes(data, offset) ==
    IF offset + 32 > Len(data) THEN Err("InvalidData")
    ELSE Ok(SubSeq(data, offset + 1, offset + 32))

\* ethabi as_usize: a word whose 28 high bytes are zero, as a number.
\* A value of 2^31 or more exceeds every buffer length and is refused
\* where it would be used as an offset or a length.
as_usize(w) ==
    IF \E i \in 1..28 : w[i] # 0 THEN Err("InvalidData")
    ELSE IF w[29] >= 128 THEN Err("InvalidData")
    ELSE Ok(((w[29] * 256 + w[30]) * 256 + w[31]) * 256 + w[32])

\* ethabi take_bytes (non-validating decode)
take_bytes(data, offset, len) ==
    IF offset + len > Len(data) THEN Err("InvalidData")
    ELSE Ok(SubSeq(data, offset + 1, offset + len))

\* ethabi::decode(&[ParamType::Bytes], data): the offset word at 0, the
\* length word at that offset, then that many bytes
decode_bytes(data) ==
    LET o == peek_32_bytes(data, 0) IN
    IF ~o.ok THEN o ELSE
    LET off == as_usize(o.v) IN
    IF ~off.ok THEN off ELSE
    LET l == peek_32_bytes(data, off.v) IN
    IF ~l.ok THEN l ELSE
    LET len == as_usize(l.v) IN
    IF ~len.ok THEN len ELSE
    take_bytes(data, off.v + 32, len.v)

\* a variant of abi_decode_to_binary that asks for ParamType::String, so
\* that the token is no Token::Bytes and the fallback arm answers
abi_decode_to_binary_as_string(enc) ==
    LET payload == decode_bytes(enc) IN
    IF payload.ok THEN Ok(<<>>)
    ELSE Err("error: abi_decode_to_binary")

abi_decode_to_binary(enc) ==
    LET payload == decode_bytes(enc) IN
    IF payload.ok THEN Ok(payload.v)
    ELSE Err("error: abi_decode_to_binary")

abi_encode_string(stri) == encode(<<stri>>)

\* a variant of get_request_packet that puts the payload first
get_request_packet_swapped(handler_address, payload) ==
    encode(<<payload, handler_address>>)

get_request_packet(handler_address, payload) ==
    encode(<<handler_address, payload>>)

(***************************************************************************)
(* helper.rs: the packed encoding.  An unsigned integer wider than TLC's   *)
(* is a sequence of base-65536 digits, most significant first: four for a  *)
(* u64, eight for a u128, one for a u8.  A U256 is its four u64 limbs,     *)
(* least significant first, as in U256.0.                                  *)
(***************************************************************************)
\* u64::to_be_bytes
to_be_bytes(limb) ==
    [i \in 1..8 |-> IF i % 2 = 1 THEN limb[(i + 1) \div 2] \div 256
                    ELSE limb[i \div 2] % 256]

\* U256::from(u8 / u64 / u128): zero-extended and cut into limbs
U256_from(x) ==
    LET wide == [i \in 1..(16 - Len(x)) |-> 0] \o x
    IN [k \in 1..4 |-> SubSeq(wide, 17 - 4 * k, 20 - 4 * k)]

\* a value of enum SolidityDataType; to_take is TakeLastXBytes.0
SolidityDataType(type, v, to_take) ==
    [type |-> type, v |-> v, to_take |-> to_take]

\* n.0.iter().rev() folded over to_be_bytes: the 32 bytes of a U256
U256_be_bytes(n) ==
    to_be_bytes(n[4]) \o to_be_bytes(n[3]) \o to_be_bytes(n[2])
    \o to_be_bytes(n[1])

\* a variant of pack whose NumberWithShift keeps the leading bytes
pack_take_first(data_type) ==
    CASE data_type.type \in {"String", "Bytes", "Address"} -> data_type.v
      [] data_type.type = "Bool" -> IF data_type.v THEN <<1>> ELSE <<0>>
      [] data_type.type = "Number" -> U256_be_bytes(data_type.v)
      [] data_type.type = "NumberWithShift" ->
            SubSeq(U256_be_bytes(data_type.v), 1, data_type.to_take \div 8)

\* the widths drawn stay within 256 bits: a wider to_take underflows
\* to_skip
pack(data_type) ==
    CASE data_type.type \in {"String", "Bytes", "Address"} -> data_type.v
      [] data_type.type = "Bool" -> IF data_type.v THEN <<1>> ELSE <<0>>
      [] data_type.type = "Number" -> U256_be_bytes(data_type.v)
      [] data_type.type = "NumberWithShift" ->
            LET local_res == U256_be_bytes(data_type.v)
                to_skip == Len(local_res) - (data_type.to_take \div 8)
            IN SubSeq(local_res, to_skip + 1, Len(local_res))

RECURSIVE join(_)
\* res.join(&[][..])
join(parts) ==
    IF parts = <<>> THEN <<>> ELSE Head(parts) \o join(Tail(parts))

\* the bytes encode_packed returns (the hex string beside them is unused)
encode_packed(items) == join([i \in 1..Len(items) |-> pack(items[i])])

\* a variant of get_request_metadata that packs relayer_fees in 64 bits
get_request_metadata_fees64(gas_limit, gas_price, ack_gas_limit, ack_gas_price, relayer_fees, ack_type, is_read_call, asm_address) ==
    encode_packed(
        <<SolidityDataType("NumberWithShift", U256_from(gas_limit), 64),
          SolidityDataType("NumberWithShift", U256_from(gas_price), 64),
          SolidityDataType("NumberWithShift", U256_from(ack_gas_limit), 64),
          SolidityDataType("NumberWithShift", U256_from(ack_gas_price), 64),
          SolidityDataType("NumberWithShift", U256_from(relayer_fees), 64),
          SolidityDataType("NumberWithShift", U256_from(ack_type), 8),
          SolidityDataType("Bool", is_read_call, 0),
          SolidityDataType("String", asm_address, 0)>>)

get_request_metadata(gas_limit, gas_price, ack_gas_limit, ack_gas_price, relayer_fees, ack_type, is_read_call, asm_address) ==
    encode_packed(
        <<SolidityDataType("NumberWithShift", U256_from(gas_limit), 64),
          SolidityDataType("NumberWithShift", U256_from(gas_price), 64),
          SolidityDataType("NumberWithShift", U256_from(ack_gas_limit), 64),
          SolidityDataType("NumberWithShift", U256_from(ack_gas_price), 64),
          SolidityDataType("NumberWithShift", U256_from(relayer_fees), 128),
          SolidityDataType("NumberWithShift", U256_from(ack_type), 8),
          SolidityDataType("Bool", is_read_call, 0),
          SolidityDataType("String", asm_address, 0)>>)

(***************************************************************************)
(* Program constants.                                                      *)
(***************************************************************************)
MIN_NAME_LENGTH == 3

MAX_NAME_LENGTH == 64

ISEND_ID == 125

(***************************************************************************)
(* Errors and handler results.  A handler returns Ok(Response) or          *)
(* Err(ContractError), or panics; `store` is the storage as the handler    *)
(* left it, every write made before the error included.                    *)
(***************************************************************************)
Error(kind, msg, arg) == [kind |-> kind, msg |-> msg, arg |-> arg]

StdError(msg, arg) == Error("Std", msg, arg)

NoError == Error("", "", <<>>)

EmptyResponse ==
    [data |-> None, events |-> <<>>, attributes |-> <<>>, messages |-> <<>>]

HOk(store, resp) ==
    [ok |-> TRUE, panicked |-> FALSE, e |-> NoError, resp |-> resp,
     store |-> store]

HErr(store, e) ==
    [ok |-> FALSE, panicked |-> FALSE, e |-> e, resp |-> EmptyResponse,
     store |-> store]

HPanic(store, msg) ==
    [ok |-> FALSE, panicked |-> TRUE, e |-> Error("Panic", msg, <<>>),
     resp |-> EmptyResponse, store |-> store]

(***************************************************************************)
(* helper.rs: name validation and the price check.                         *)
(***************************************************************************)
invalid_char(c) ==
    LET is_valid ==
            \/ (c >= 48 /\ c <= 57)
            \/ (c >= 97 /\ c <= 122)
            \/ (c = 46 \/ c = 45 \/ c = 95)
    IN ~is_valid

validate_name(name) ==
    IF Len(name) < MIN_NAME_LENGTH THEN
        Err(Error("NameTooShort", "", <<>>))
    ELSE IF Len(name) > MAX_NAME_LENGTH THEN
        Err(Error("NameTooLong", "", <<>>))
    ELSE IF \E i \in 1..Len(name) : invalid_char(name[i]) THEN
        Err(Error("InvalidCharacter", "", <<>>))
    ELSE Ok(TRUE)

RECURSIVE SumOfDenom(_, _)
\* the amounts of the coins of one denomination, added up
SumOfDenom(sent, denom) ==
    IF sent = <<>> THEN 0
    ELSE (IF Head(sent).denom = denom THEN Head(sent).amount ELSE 0)
         + SumOfDenom(Tail(sent), denom)

\* a variant of assert_sent_sufficient_coin that adds up the coins of the
\* required denomination
assert_sent_sufficient_coin_summing(sent, required) ==
    IF IsSome(required) /\ Unwrap(required).amount > 0
       /\ SumOfDenom(sent, Unwrap(required).denom) < Unwrap(required).amount
    THEN Err(Error("InsufficientFundsSend", "", <<>>))
    ELSE Ok(TRUE)

assert_sent_sufficient_coin(sent, required) ==
    IF IsSome(required) THEN
        LET required_coin == Unwrap(required)
            required_amount == required_coin.amount
        IN
        IF required_amount > 0 THEN
            LET sent_sufficient_funds ==
                    \E i \in 1..Len(sent) :
                        /\ sent[i].denom = required_coin.denom
                        /\ sent[i].amount >= required_amount
            IN
            IF sent_sufficient_funds THEN Ok(TRUE)
            ELSE Err(Error("InsufficientFundsSend", "", <<>>))
        ELSE Ok(TRUE)
    ELSE Ok(TRUE)

(***************************************************************************)
(* JSON (cosmwasm_std to_binary / from_binary) for the shapes the handlers *)
(* read and write.  Strings in the modelled inputs hold no escapes.        *)
(***************************************************************************)
\* to_binary(&String): the text between double quotes
to_binary_string(s) == <<34>> \o s \o <<34>>

\* the JSON text of CustomExecuteMsg::Register / ExecuteMsg::Register
JsonRegister(name) == JsonRegisterOpen \o name \o <<34>> \o JsonClose

\* the JSON text of CustomExecuteMsg::Transfer / ExecuteMsg::Transfer
JsonTransfer(name, to) ==
    JsonTransferOpen \o name \o <<34>> \o JsonTransferTo \o to \o <<34>>
    \o JsonClose

\* the characters of a JSON string up to its closing quote, and what
\* follows the quote
TakeString(b) ==
    IF \E i \in 1..Len(b) : b[i] = 34 THEN
        LET q == CHOOSE i \in 1..Len(b) :
                    b[i] = 34 /\ \A j \in 1..(i - 1) : b[j] # 34
        IN Ok([s |-> SubSeq(b, 1, q - 1), rest |-> Drop(b, q)])
    ELSE Err("EofWhileParsingString")

\* from_binary::<CustomExecuteMsg>
from_binary_CustomExecuteMsg(b) ==
    IF IsPrefix(JsonRegisterOpen, b) THEN
        LET name == TakeString(Drop(b, Len(JsonRegisterOpen))) IN
        IF name.ok /\ name.v.rest = JsonClose THEN
            Ok([type |-> "Register", name |-> name.v.s, to |-> <<>>])
        ELSE Err(StdError("ParseErr", <<>>))
    ELSE IF IsPrefix(JsonTransferOpen, b) THEN
        LET name == TakeString(Drop(b, Len(JsonTransferOpen))) IN
        IF name.ok /\ IsPrefix(JsonTransferTo, name.v.rest) THEN
            LET to == TakeString(Drop(name.v.rest, Len(JsonTransferTo))) IN
            IF to.ok /\ to.v.rest = JsonClose THEN
                Ok([type |-> "Transfer", name |-> name.v.s, to |-> to.v.s])
            ELSE Err(StdError("ParseErr", <<>>))
        ELSE Err(StdError("ParseErr", <<>>))
    ELSE Err(StdError("ParseErr", <<>>))

IsDigit(c) == c >= 48 /\ c <= 57

\* whether the decimal digit string a is above the digit string b of the
\* same length
RECURSIVE DigitsAbove(_, _)
DigitsAbove(a, b) ==
    IF a = <<>> THEN FALSE
    ELSE IF a[1] # b[1] THEN a[1] > b[1]
    ELSE DigitsAbove(Tail(a), Tail(b))

RECURSIVE DigitsValue(_)
DigitsValue(d) ==
    IF d = <<>> THEN 0
    ELSE DigitsValue(SubSeq(d, 1, Len(d) - 1)) * 10 + (d[Len(d)] - 48)

\* a variant of from_binary_u64 that reads what is no number as 0
from_binary_u64_lenient(b) ==
    IF b # <<>> /\ (\A i \in 1..Len(b) : IsDigit(b[i])) /\ Len(b) < 10
    THEN Ok(DigitsValue(b))
    ELSE Ok(0)

\* from_binary::<u64>: a JSON number without sign, fraction or leading
\* zero that fits 64 bits
from_binary_u64(b) ==
    IF b = <<>> THEN Err(StdError("ParseErr", <<>>))
    ELSE IF \E i \in 1..Len(b) : ~IsDigit(b[i]) THEN
        Err(StdError("ParseErr", <<>>))
    ELSE IF b[1] = 48 /\ Len(b) > 1 THEN Err(StdError("ParseErr", <<>>))
    ELSE IF Len(b) > Len(U64MaxDigits) THEN Err(StdError("ParseErr", <<>>))
    ELSE IF Len(b) = Len(U64MaxDigits) /\ DigitsAbove(b, U64MaxDigits) THEN
        Err(StdError("ParseErr", <<>>))
    ELSE Ok(DigitsValue(b))

(***************************************************************************)
(* Storage (state.rs).  A store is a record of the items; an Item that was *)
(* never saved is None; NAME_RESOLVER is a function from the saved keys to *)
(* their NameRecord.                                                       *)
(***************************************************************************)
EmptyMap == [k \in {} |-> [owner |-> <<>>]]

may_load(map, key) == IF key \in DOMAIN map THEN Some(map[key]) ELSE None

\* a variant of save that keeps no other record
save_only(map, key, record) == [k \in {key} |-> record]

save(map, key, record) ==
    [k \in (DOMAIN map) \cup {key} |-> IF k = key THEN record ELSE map[k]]

\* deps.api.addr_validate: the host's check of a human-readable address
addr_validate(human) ==
    IF Len(human) < 3 \/ Len(human) > 90 THEN
        Err(StdError("Invalid input: human address", <<>>))
    ELSE Ok(human)

\* a variant of save_request that appends to the snapshot
save_request_append(s, decoded) ==
    [s EXCEPT !.REQUEST =
        Some((IF IsSome(s.REQUEST) THEN Unwrap(s.REQUEST) ELSE <<>>)
             \o decoded)]

\* REQUEST.save(deps.storage, &decoded): the snapshot is overwritten
save_request(s, decoded) == [s EXCEPT !.REQUEST = Some(decoded)]

(***************************************************************************)
(* execute.rs: the handlers.                                               *)
(***************************************************************************)
\* a variant of execute_register that saves the config back with the
\* purchase price cleared
execute_register_clears_price(s, env, info, name) ==
    LET valid == validate_name(name) IN
    IF ~valid.ok THEN HErr(s, valid.e) ELSE
    IF ~IsSome(s.CONFIG) THEN HErr(s, StdError("NotFound", <<>>)) ELSE
    LET config == Unwrap(s.CONFIG)
        paid == assert_sent_sufficient_coin(info.funds, config.purchase_price)
    IN
    IF ~paid.ok THEN HErr(s, paid.e) ELSE
    IF IsSome(may_load(s.NAME_RESOLVER, name)) THEN
        HErr(s, Error("NameTaken", "", name))
    ELSE
    LET s1 == [s EXCEPT !.NAME_RESOLVER =
                   save(s.NAME_RESOLVER, name, [owner |-> info.sender]),
                        !.CONFIG =
                   Some([config EXCEPT !.purchase_price = None])]
        result_txt == TxtRegisterName \o name \o TxtOwner \o info.sender
        result == abi_encode_string(result_txt)
        s2 == [s1 EXCEPT !.RESULT = Some(result)]
    IN HOk(s2, [EmptyResponse EXCEPT !.data = Some(result)])

\* a variant of execute_register that overwrites the record of a taken name
execute_register_overwrite(s, env, info, name) ==
    LET valid == validate_name(name) IN
    IF ~valid.ok THEN HErr(s, valid.e) ELSE
    IF ~IsSome(s.CONFIG) THEN HErr(s, StdError("NotFound", <<>>)) ELSE
    LET config == Unwrap(s.CONFIG)
        paid == assert_sent_sufficient_coin(info.funds, config.purchase_price)
    IN
    IF ~paid.ok THEN HErr(s, paid.e) ELSE
    LET s1 == [s EXCEPT !.NAME_RESOLVER =
                   save(s.NAME_RESOLVER, name, [owner |-> info.sender])]
        result_txt == TxtRegisterName \o name \o TxtOwner \o info.sender
        result == abi_encode_string(result_txt)
        s2 == [s1 EXCEPT !.RESULT = Some(result)]
    IN HOk(s2, [EmptyResponse EXCEPT !.data = Some(result)])

execute_register(s, env, info, name) ==
    LET valid == validate_name(name) IN
    IF ~valid.ok THEN HErr(s, valid.e) ELSE
    IF ~IsSome(s.CONFIG) THEN HErr(s, StdError("NotFound", <<>>)) ELSE
    LET config == Unwrap(s.CONFIG)
        paid == assert_sent_sufficient_coin(info.funds, config.purchase_price)
    IN
    IF ~paid.ok THEN HErr(s, paid.e) ELSE
    LET key == name
        record == [owner |-> info.sender]
    IN
    IF IsSome(may_load(s.NAME_RESOLVER, key)) THEN
        HErr(s, Error("NameTaken", "", name))
    ELSE
    LET s1 == [s EXCEPT !.NAME_RESOLVER = save(s.NAME_RESOLVER, key, record)]
        result_txt == TxtRegisterName \o name \o TxtOwner \o info.sender
        result == abi_encode_string(result_txt)
        s2 == [s1 EXCEPT !.RESULT = Some(result)]
    IN HOk(s2, [EmptyResponse EXCEPT !.data = Some(result)])

\* a variant of execute_transfer that creates the record of a name that
\* has none
execute_transfer_creates(s, env, info, name, to) ==
    IF ~IsSome(s.CONFIG) THEN HErr(s, StdError("NotFound", <<>>)) ELSE
    LET config == Unwrap(s.CONFIG)
        paid == assert_sent_sufficient_coin(info.funds, config.transfer_price)
    IN
    IF ~paid.ok THEN HErr(s, paid.e) ELSE
    LET new_owner == addr_validate(to) IN
    IF ~new_owner.ok THEN HErr(s, new_owner.e) ELSE
    LET record == may_load(s.NAME_RESOLVER, name) IN
    IF IsSome(record) /\ info.sender # Unwrap(record).owner THEN
        HErr(s, Error("Unauthorized", "", <<>>))
    ELSE
    LET s1 == [s EXCEPT !.NAME_RESOLVER =
                   save(s.NAME_RESOLVER, name, [owner |-> new_owner.v])]
        result_txt == TxtRegisterName \o name \o TxtTo \o to
        result == abi_encode_string(result_txt)
        s2 == [s1 EXCEPT !.RESULT = Some(result)]
    IN HOk(s2, [EmptyResponse EXCEPT !.data = Some(result)])

\* a variant of execute_transfer that does not compare the sender with the
\* owner
execute_transfer_any_sender(s, env, info, name, to) ==
    IF ~IsSome(s.CONFIG) THEN HErr(s, StdError("NotFound", <<>>)) ELSE
    LET config == Unwrap(s.CONFIG)
        paid == assert_sent_sufficient_coin(info.funds, config.transfer_price)
    IN
    IF ~paid.ok THEN HErr(s, paid.e) ELSE
    LET new_owner == addr_validate(to) IN
    IF ~new_owner.ok THEN HErr(s, new_owner.e) ELSE
    LET record == may_load(s.NAME_RESOLVER, name) IN
    IF ~IsSome(record) THEN HErr(s, Error("NameNotExists", "", name)) ELSE
    LET s1 == [s EXCEPT !.NAME_RESOLVER =
                   save(s.NAME_RESOLVER, name, [owner |-> new_owner.v])]
        result_txt == TxtRegisterName \o name \o TxtTo \o to
        result == abi_encode_string(result_txt)
        s2 == [s1 EXCEPT !.RESULT = Some(result)]
    IN HOk(s2, [EmptyResponse EXCEPT !.data = Some(result)])

execute_transfer(s, env, info, name, to) ==
    IF ~IsSome(s.CONFIG) THEN HErr(s, StdError("NotFound", <<>>)) ELSE
    LET config == Unwrap(s.CONFIG)
        paid == assert_sent_sufficient_coin(info.funds, config.transfer_price)
    IN
    IF ~paid.ok THEN HErr(s, paid.e) ELSE
    LET new_owner == addr_validate(to) IN
    IF ~new_owner.ok THEN HErr(s, new_owner.e) ELSE
    LET key == name
        record == may_load(s.NAME_RESOLVER, key)
    IN
    IF ~IsSome(record) THEN HErr(s, Error("NameNotExists", "", name)) ELSE
    IF info.sender # Unwrap(record).owner THEN
        HErr(s, Error("Unauthorized", "", <<>>))
    ELSE
    LET s1 == [s EXCEPT !.NAME_RESOLVER =
                   save(s.NAME_RESOLVER, key, [owner |-> new_owner.v])]
        result_txt == TxtRegisterName \o name \o TxtTo \o to
        result == abi_encode_string(result_txt)
        s2 == [s1 EXCEPT !.RESULT = Some(result)]
    IN HOk(s2, [EmptyResponse EXCEPT !.data = Some(result)])

\* a variant of execute_i_receive that delegates in the name of the remote
\* sender
execute_i_receive_as_remote(s, env, info, src_chain_id, request_sender, payload) ==
    LET decoded == abi_decode_to_binary(payload)
        remote == [info EXCEPT !.sender = request_sender]
    IN
    IF ~decoded.ok THEN HErr(s, StdError(decoded.e, <<>>)) ELSE
    LET s1 == save_request(s, decoded.v)
        msg == from_binary_CustomExecuteMsg(decoded.v)
    IN
    IF ~msg.ok THEN HErr(s1, msg.e)
    ELSE IF msg.v.type = "Register" THEN
        execute_register(s1, env, remote, msg.v.name)
    ELSE execute_transfer(s1, env, remote, msg.v.name, msg.v.to)

\* a variant of execute_i_receive that completes without effect when the
\* inner message is no Register or Transfer
execute_i_receive_noop(s, env, info, src_chain_id, request_sender, payload) ==
    LET decoded == abi_decode_to_binary(payload) IN
    IF ~decoded.ok THEN HErr(s, StdError(decoded.e, <<>>)) ELSE
    LET s1 == save_request(s, decoded.v)
        msg == from_binary_CustomExecuteMsg(decoded.v)
    IN
    IF ~msg.ok THEN HOk(s1, EmptyResponse)
    ELSE IF msg.v.type = "Register" THEN
        execute_register(s1, env, info, msg.v.name)
    ELSE execute_transfer(s1, env, info, msg.v.name, msg.v.to)

\* a variant of execute_i_receive that accepts packets of one source chain
\* only
execute_i_receive_one_chain(s, env, info, src_chain_id, request_sender, payload) ==
    LET decoded == abi_decode_to_binary(payload) IN
    IF ~decoded.ok THEN HErr(s, StdError(decoded.e, <<>>)) ELSE
    IF src_chain_id # ChainId THEN HErr(s, StdError("unknown chain", <<>>))
    ELSE
    LET s1 == save_request(s, decoded.v)
        msg == from_binary_CustomExecuteMsg(decoded.v)
    IN
    IF ~msg.ok THEN HErr(s1, msg.e)
    ELSE IF msg.v.type = "Register" THEN
        execute_register(s1, env, info, msg.v.name)
    ELSE execute_transfer(s1, env, info, msg.v.name, msg.v.to)

execute_i_receive(s, env, info, src_chain_id, request_sender, payload) ==
    LET decoded == abi_decode_to_binary(payload) IN
    IF ~decoded.ok THEN HErr(s, StdError(decoded.e, <<>>)) ELSE
    LET s1 == save_request(s, decoded.v)
        msg == from_binary_CustomExecuteMsg(decoded.v)
    IN
    IF ~msg.ok THEN HErr(s1, msg.e)
    ELSE IF msg.v.type = "Register" THEN
        execute_register(s1, env, info, msg.v.name)
    ELSE execute_transfer(s1, env, info, msg.v.name, msg.v.to)

\* a variant of AckText that leaves the status flag out
AckText_no_status(address, request_identifier, exec_status, decoded) ==
    TxtAckAddress \o address
    \o TxtAckIdentifier \o Decimal(request_identifier)
    \o TxtAckStatus
    \o TxtAckData \o FmtBinaryDebug(decoded)

\* the text execute_i_ack formats
AckText(address, request_identifier, exec_status, decoded) ==
    TxtAckAddress \o address
    \o TxtAckIdentifier \o Decimal(request_identifier)
    \o TxtAckStatus \o FmtBool(exec_status)
    \o TxtAckData \o FmtBinaryDebug(decoded)

execute_i_ack(s, env, request_identifier, exec_status, exec_data) ==
    LET decoded == abi_decode_to_binary(exec_data) IN
    IF ~decoded.ok THEN HErr(s, StdError(decoded.e, <<>>)) ELSE
    LET s1 == save_request(s, decoded.v)
        result_txt == AckText(env.contract_address, request_identifier,
                              exec_status, decoded.v)
        result == abi_encode_string(result_txt)
        s2 == [s1 EXCEPT !.RESULT = Some(result)]
    IN HOk(s2, [EmptyResponse EXCEPT !.data = Some(result)])

\* a variant of GatewaySubMsg that asks for a reply on success only
GatewaySubMsg_on_success(gateway_address, gateway_msg) ==
    [id |-> ISEND_ID, gas_limit |-> None, reply_on |-> "Success",
     msg |-> [contract_addr |-> gateway_address, msg |-> gateway_msg,
              funds |-> <<>>]]

\* the SubMsg both dispatching handlers build: wasm_execute to the gateway,
\* no funds, tagged ISEND_ID, replying on success and on failure
GatewaySubMsg(gateway_address, gateway_msg) ==
    [id |-> ISEND_ID, gas_limit |-> None, reply_on |-> "Always",
     msg |-> [contract_addr |-> gateway_address, msg |-> gateway_msg,
              funds |-> <<>>]]

execute_i_send(s, env, m) ==
    LET request_packet == get_request_packet(m.handler_address, m.payload)
        i_send_msg ==
            [type |-> "ISend", version |-> m.version,
             route_amount |-> m.route_amount,
             route_recipient |-> m.route_recipient,
             dest_chain_id |-> m.dest_chain_id,
             request_metadata |-> m.request_metadata,
             request_packet |-> request_packet]
        submsg == GatewaySubMsg(m.gateway_address, i_send_msg)
        event == [ty |-> "ISend",
                  attributes |->
                      << <<"dest_chain_id", m.dest_chain_id>>,
                         <<"handler_address", m.handler_address>>,
                         <<"payload", to_base64(m.payload)>>,
                         <<"request_packet", to_base64(request_packet)>> >>]
    IN HOk(s, [EmptyResponse EXCEPT !.events = <<event>>,
                                    !.messages = <<submsg>>])

set_dapp_metadata(s, fee_payer_address, gateway_address) ==
    LET set_dapp_metadata_msg ==
            [type |-> "SetDappMetadata",
             fee_payer_address |-> fee_payer_address]
        submsg == GatewaySubMsg(gateway_address, set_dapp_metadata_msg)
    IN HOk(s, [EmptyResponse EXCEPT
                   !.messages = <<submsg>>,
                   !.attributes = << <<"fee_payer_address",
                                      fee_payer_address>> >>])

\* contract.rs: the execute entry point's dispatch over ExecuteMsg
execute(s, env, info, msg) ==
    CASE msg.type = "Register" -> execute_register(s, env, info, msg.name)
      [] msg.type = "Transfer" ->
            execute_transfer(s, env, info, msg.name, msg.to)
      [] msg.type = "IReceive" ->
            execute_i_receive(s, env, info, msg.src_chain_id,
                              msg.request_sender, msg.packet)
      [] msg.type = "IAck" ->
            execute_i_ack(s, env, msg.request_identifier, msg.exec_status,
                          msg.exec_data)
      [] msg.type = "ISend" -> execute_i_send(s, env, msg)
      [] msg.type = "SetDappMetadata" ->
            set_dapp_metadata(s, msg.fee_payer_address, msg.gateway_address)

(***************************************************************************)
(* reply.rs: the reply entry point.  A Reply is                            *)
(* [id, ok, data, err]: ok with the nested call's data (an Option), or     *)
(* not ok with its error text.                                             *)
(***************************************************************************)
\* cw_utils parse_protobuf_varint, for a length of one or two bytes
parse_protobuf_varint(data) ==
    IF Len(data) = 0 THEN Err("varint data too short")
    ELSE IF data[1] < 128 THEN Ok([len |-> data[1], rest |-> Tail(data)])
    ELSE IF Len(data) = 1 THEN Err("varint data too short")
    ELSE IF data[2] < 128 THEN
        Ok([len |-> (data[1] % 128) + 128 * data[2], rest |-> Drop(data, 2)])
    ELSE Err("varint data too long")

\* cw_utils parse_reply_execute_data: the data of MsgExecuteContractResponse
\* (Protobuf field 1, length-delimited) out of the reply's data
parse_reply_execute_data(msg) ==
    IF ~msg.ok THEN Err([kind |-> "SubMsgFailure", arg |-> msg.err])
    ELSE IF ~IsSome(msg.data) THEN
        Err([kind |-> "ParseFailure", arg |-> TxtMissingReplyData])
    ELSE
    LET data == Unwrap(msg.data) IN
    IF data = <<>> THEN Ok([data |-> None])
    ELSE IF data[1] \div 8 # 1 \/ data[1] % 4 # 2 THEN
        Err([kind |-> "ParseFailure", arg |-> <<>>])
    ELSE
    LET len == parse_protobuf_varint(Tail(data)) IN
    IF ~len.ok THEN Err([kind |-> "ParseFailure", arg |-> <<>>])
    ELSE IF Len(len.v.rest) < len.v.len THEN
        Err([kind |-> "ParseFailure", arg |-> <<>>])
    ELSE IF len.v.len = 0 THEN Ok([data |-> None])
    ELSE Ok([data |-> Some(SubSeq(len.v.rest, 1, len.v.len))])

\* a variant of load_pending that starts from an empty ledger every time
load_pending_fresh(s) == [requests |-> <<>>]

\* PENDING.load(..).unwrap_or(PendingRequests { requests: vec![] })
load_pending(s) ==
    IF IsSome(s.PENDING) THEN Unwrap(s.PENDING) ELSE [requests |-> <<>>]

\* a variant of push that puts the new identifier first
push_front(requests, request_identifier) ==
    <<request_identifier>> \o requests

\* requests.push(request_identifier)
push(requests, request_identifier) == Append(requests, request_identifier)

\* a variant of i_send_reply_err that swallows the failure
i_send_reply_err_swallow(s, err) == HOk(s, EmptyResponse)

\* the Err arm of handle_i_send_reply: every ParseReplyError becomes an
\* error of the invocation
i_send_reply_err(s, err) ==
    CASE err.kind = "SubMsgFailure" ->
            HErr(s, StdError("SubMsgFailure: ", err.arg))
      [] err.kind = "ParseFailure" ->
            HErr(s, StdError("ParseFailure: ", err.arg))
      [] err.kind = "BrokenUtf8" -> HErr(s, StdError("BrokenUtf8", <<>>))

handle_i_send_reply(s, reply_msg) ==
    LET execute_response == parse_reply_execute_data(reply_msg) IN
    IF execute_response.ok THEN
        IF ~IsSome(execute_response.v.data) THEN
            HPanic(s, "called Option::unwrap() on a None value")
        ELSE
        LET id == from_binary_u64(Unwrap(execute_response.v.data)) IN
        IF ~id.ok THEN HErr(s, id.e) ELSE
        LET request_identifier == id.v
            pending_requests == load_pending(s)
            requests == push(pending_requests.requests, request_identifier)
            new_pending_requests == [requests |-> requests]
            s1 == [s EXCEPT !.PENDING = Some(new_pending_requests)]
            data == to_binary_string(TxtReplyOk \o Decimal(request_identifier))
        IN HOk(s1, [EmptyResponse EXCEPT !.data = Some(data)])
    ELSE i_send_reply_err(s, execute_response.e)

\* a variant of reply that correlates every tag
reply_any_tag(s, env, reply_msg) == handle_i_send_reply(s, reply_msg)

reply(s, env, reply_msg) ==
    IF reply_msg.id = ISEND_ID THEN handle_i_send_reply(s, reply_msg)
    ELSE HErr(s, StdError("invalid reply id", <<>>))

(***************************************************************************)
(* contract.rs: instantiate and the query entry point.                     *)
(***************************************************************************)
EmptyStore ==
    [CONFIG |-> None, NAME_RESOLVER |-> EmptyMap, REQUEST |-> None,
     RESULT |-> None, PENDING |-> None]

instantiate(s, msg) ==
    LET config == [purchase_price |-> msg.purchase_price,
                   transfer_price |-> msg.transfer_price]
    IN HOk([s EXCEPT !.CONFIG = Some(config)], EmptyResponse)

\* to_binary of an Option<Coin>
JsonOptionCoin(c) ==
    IF IsSome(c) THEN
        JsonDenom \o Unwrap(c).denom \o JsonAmount
        \o Decimal(Unwrap(c).amount) \o JsonCoinClose
    ELSE JsonNull

query_resolver(s, env, name) ==
    LET key == name
        record == may_load(s.NAME_RESOLVER, key)
        address == IF IsSome(record) THEN Some(Unwrap(record).owner)
                   ELSE None
    IN HOk(s, [EmptyResponse EXCEPT !.data =
                  Some(JsonAddressOpen
                       \o (IF IsSome(address)
                           THEN to_binary_string(Unwrap(address))
                           ELSE JsonNull)
                       \o <<125>>)])

\* a variant of query that records its answer in the last-result snapshot
query_recording(s, env, msg) ==
    LET r == CASE msg.type = "ResolveRecord" ->
                     query_resolver(s, env, msg.name)
               [] msg.type = "Config" -> HOk(s, EmptyResponse)
               [] msg.type = "Request" ->
                     HOk(s, [EmptyResponse EXCEPT !.data = s.REQUEST])
    IN [r EXCEPT !.store = [s EXCEPT !.RESULT = Some(<<>>)]]

query(s, env, msg) ==
    CASE msg.type = "ResolveRecord" -> query_resolver(s, env, msg.name)
      [] msg.type = "Config" ->
            IF ~IsSome(s.CONFIG) THEN HErr(s, StdError("NotFound", <<>>))
            ELSE HOk(s, [EmptyResponse EXCEPT !.data =
                     Some(JsonPurchasePrice
                          \o JsonOptionCoin(Unwrap(s.CONFIG).purchase_price)
                          \o JsonTransferPrice
                          \o JsonOptionCoin(Unwrap(s.CONFIG).transfer_price)
                          \o <<125>>)])
      [] msg.type = "Request" ->
            HOk(s, [EmptyResponse EXCEPT !.data =
                Some(IF IsSome(s.REQUEST)
                     THEN to_binary_string(to_base64(Unwrap(s.REQUEST)))
                     ELSE JsonNull)])

(***************************************************************************)
(* Bounds and input sets.                                                  *)
(***************************************************************************)
\* top-level invocations (execute, query, stray reply) in one behaviour
MaxTx == 2

\* identifiers the gateway assigns and acknowledgements name
Ids == {7, 42}

\* reply ids other than ISEND_ID
UnknownTags == {0, 126}

Env == [contract_address |-> AddrContract]

Coin(amount, denom) == [denom |-> denom, amount |-> amount]

InstantiateMsgs ==
    {[purchase_price |-> None, transfer_price |-> None],
     [purchase_price |-> Some(Coin(5, DenomToken)),
      transfer_price |-> Some(Coin(5, DenomToken))]}

Infos ==
    [sender : {AddrAlice, AddrBob}, funds : {<<>>, <<Coin(5, DenomToken)>>}]

\* the callers of the invocations whose handlers read no MessageInfo
GatewayInfos == {[sender |-> AddrGateway, funds |-> <<>>]}

NoInfo == [sender |-> <<>>, funds |-> <<>>]

RegisterMsgs ==
    {[type |-> "Register", name |-> n] :
        n \in {NameAbc, NameXyz, NameShort, NameUpper, NameLong}}

TransferMsgs ==
    {[type |-> "Transfer", name |-> n, to |-> t] :
        n \in {NameAbc, NameXyz}, t \in {AddrAlice, AddrBob, NameShort}}

\* inbound packets: ABI-encoded inner Register and Transfer messages, an
\* ABI-encoded buffer that is no message, ABI-encoded acknowledge, receive
\* and send messages, and a buffer that is no ABI encoding
Packets ==
    {encode(<<JsonRegister(NameAbc)>>), encode(<<JsonRegister(NameShort)>>),
     encode(<<JsonTransfer(NameAbc, AddrBob)>>), encode(<<JsonGarbage>>),
     encode(<<JsonIAckInner>>), encode(<<JsonIReceiveInner>>),
     encode(<<JsonISendInner>>), <<1, 2>>}

ReceiveMsgs ==
    {[type |-> "IReceive", src_chain_id |-> ChainId, request_sender |-> rs,
      packet |-> p] : rs \in {RemoteSender, RemoteSender2}, p \in Packets}

AckMsgs ==
    {[type |-> "IAck", request_identifier |-> id, exec_status |-> st,
      exec_data |-> d] :
        id \in Ids, st \in BOOLEAN,
        d \in {encode(<< <<1, 2>> >>), encode(<< <<>> >>), <<1, 2>>}}

SendMsgs ==
    {[type |-> "ISend", version |-> 1, route_amount |-> 0,
      route_recipient |-> <<>>, dest_chain_id |-> ChainId,
      request_metadata |-> <<0, 3>>, gateway_address |-> AddrGateway,
      handler_address |-> HandlerH, payload |-> p] : p \in {<<1, 2>>}}

SetDappMetadataMsgs ==
    {[type |-> "SetDappMetadata", fee_payer_address |-> AddrAlice,
      gateway_address |-> AddrGateway]}

QueryMsgs ==
    {[type |-> "ResolveRecord", name |-> NameAbc], [type |-> "Config"],
     [type |-> "Request"]}

\* the data of a MsgExecuteContractResponse carrying `inner`
ProtoWrap(inner) == <<10, Len(inner)>> \o inner

GatewayResult(ok, data, err, assigned) ==
    [ok |-> ok, data |-> data, err |-> err, assigned |-> assigned]

\* what the gateway's nested execution can report: a failure, or a success
\* with no data, with data that is no MsgExecuteContractResponse, with an
\* empty one, with one carrying the JSON of the identifier it assigned, or
\* with one carrying something that is no u64
GatewayResults ==
    {GatewayResult(FALSE, None, TxtGatewayReverted, None),
     GatewayResult(TRUE, None, <<>>, None),
     GatewayResult(TRUE, Some(<<>>), <<>>, None),
     GatewayResult(TRUE, Some(<<8, 1>>), <<>>, None)}
    \cup {GatewayResult(TRUE, Some(ProtoWrap(Decimal(id))), <<>>, Some(id)) :
            id \in Ids}
    \cup {GatewayResult(TRUE, Some(ProtoWrap(j)), <<>>, None) :
            j \in {JsonGarbage, JsonU64Overflow, JsonLeadingZero,
                   JsonNegative}}

\* the results a stray reply carries: a failure and a success with an
\* identifier
StrayResults ==
    {g \in GatewayResults : ~g.ok \/ g.assigned = Some(7)}

(***************************************************************************)
(* State.                                                                  *)
(***************************************************************************)
VARIABLES
    CONFIG,         \* Item<Config>
    NAME_RESOLVER,  \* Map<&[u8], NameRecord>
    REQUEST,        \* Item<Binary>: the last-request snapshot
    RESULT,         \* Item<Binary>: the last-result snapshot
    PENDING,        \* Item<PendingRequests>: the pending ledger
    events,         \* the events of committed invocations, in order
    phase,          \* "idle", "dispatched" (nested call running), "replying"
    tx,             \* the invocation whose nested call is in flight
    last,           \* the step just taken: its input and its outcome
    nTx,            \* top-level invocations so far
    delivered,      \* identifiers the gateway assigned, of the replies that
                    \* returned Ok, in delivery order
    accepted,       \* ISend dispatches whose gateway call succeeded
    lastEvent,      \* the buffer of the last committed receive, ack or send
    lastInbound,    \* the buffer of the last committed receive or ack
    lastData,       \* the data the last committed register, transfer,
                    \* receive or acknowledge returned
    codec           \* the codec function last applied on its own: its
                    \* arguments and its output

\* no codec function applied on its own yet
NoCodec == [fn |-> "", args |-> <<>>, out |-> <<>>, decoded |-> None]

vars ==
    <<CONFIG, NAME_RESOLVER, REQUEST, RESULT, PENDING, events, phase, tx,
      last, nTx, delivered, accepted, lastEvent, lastInbound, lastData,
      codec>>

Store ==
    [CONFIG |-> CONFIG, NAME_RESOLVER |-> NAME_RESOLVER, REQUEST |-> REQUEST,
     RESULT |-> RESULT, PENDING |-> PENDING]

SetStore(s) ==
    /\ CONFIG' = s.CONFIG
    /\ NAME_RESOLVER' = s.NAME_RESOLVER
    /\ REQUEST' = s.REQUEST
    /\ RESULT' = s.RESULT
    /\ PENDING' = s.PENDING

\* the storage items of an initial state
SetStoreInit(s) ==
    /\ CONFIG = s.CONFIG
    /\ NAME_RESOLVER = s.NAME_RESOLVER
    /\ REQUEST = s.REQUEST
    /\ RESULT = s.RESULT
    /\ PENDING = s.PENDING

\* the pending ledger as stored: PendingRequests.requests, empty before the
\* first save
Ledger == IF IsSome(PENDING) THEN Unwrap(PENDING).requests ELSE <<>>

NoTx ==
    [kind |-> "", pre |-> EmptyStore, resp |-> EmptyResponse,
     submsg |-> None, gw |-> None, reply |-> None]

Last(op, msg, info, r, outcome, via, assigned) ==
    [op |-> op, msg |-> msg, info |-> info, ok |-> r.ok,
     panicked |-> r.panicked, e |-> r.e, data |-> r.resp.data,
     outcome |-> outcome, via |-> via, assigned |-> assigned]

(***************************************************************************)
(* The host: an invocation that ends in an error or a panic is rolled      *)
(* back; one that returns Ok commits, after its nested call and the reply  *)
(* to it if it dispatched one.                                             *)
(***************************************************************************)
\* a variant of Commit that keeps the writes of a failed invocation
CommitAlways(pre, r) == r.store

\* the storage after an entry point returned r, called on storage `pre`
Commit(pre, r) == IF r.ok THEN r.store ELSE pre

Init ==
    /\ \E msg \in InstantiateMsgs :
          LET s == Commit(EmptyStore, instantiate(EmptyStore, msg)) IN
          /\ CONFIG = s.CONFIG
          /\ NAME_RESOLVER = s.NAME_RESOLVER
          /\ REQUEST = s.REQUEST
          /\ RESULT = s.RESULT
          /\ PENDING = s.PENDING
    /\ events = <<>>
    /\ phase = "idle"
    /\ tx = NoTx
    /\ last = Last("Instantiate", <<>>, NoInfo, HOk(EmptyStore, EmptyResponse),
                   "committed", "", None)
    /\ nTx = 0
    /\ delivered = <<>>
    /\ accepted = 0
    /\ lastEvent = None
    /\ lastInbound = None
    /\ lastData = None
    /\ codec = NoCodec

\* the buffer a receive or an acknowledge decodes
InboundBuffer(msg) ==
    abi_decode_to_binary(IF msg.type = "IReceive" THEN msg.packet
                         ELSE msg.exec_data).v

\* one execute invocation
Invoke(info, msg) ==
    /\ nTx < MaxTx
    /\ nTx' = nTx + 1
    /\ \E pre \in {Store} : \E r \in {execute(pre, Env, info, msg)} :
       LET dispatches == r.ok /\ r.resp.messages # <<>>
       IN
       IF dispatches THEN
           \* the nested call runs before the invocation commits
           /\ SetStore(r.store)
           /\ phase' = "dispatched"
           /\ tx' = [kind |-> msg.type, pre |-> pre, resp |-> r.resp,
                     submsg |-> Some(r.resp.messages[1]), gw |-> None,
                     reply |-> None]
           /\ last' = Last(msg.type, msg, info, r, "pending", "", None)
           /\ UNCHANGED <<events, lastEvent, lastInbound, lastData>>
       ELSE
           /\ SetStore(Commit(pre, r))
           /\ events' = IF r.ok THEN events \o r.resp.events ELSE events
           /\ last' = Last(msg.type, msg, info, r,
                           IF r.ok THEN "committed" ELSE "aborted", "", None)
           /\ IF r.ok /\ msg.type \in {"IReceive", "IAck"} THEN
                  /\ lastEvent' = Some([kind |-> msg.type,
                                        buf |-> InboundBuffer(msg)])
                  /\ lastInbound' = Some([kind |-> msg.type,
                                          buf |-> InboundBuffer(msg)])
              ELSE UNCHANGED <<lastEvent, lastInbound>>
           /\ lastData' = IF r.ok THEN r.resp.data ELSE lastData
           /\ UNCHANGED <<phase, tx>>
    /\ UNCHANGED <<delivered, accepted, codec>>

Register ==
    /\ phase = "idle"
    /\ \E info \in Infos, msg \in RegisterMsgs : Invoke(info, msg)

Transfer ==
    /\ phase = "idle"
    /\ \E info \in Infos, msg \in TransferMsgs : Invoke(info, msg)

IReceive ==
    /\ phase = "idle"
    /\ \E info \in Infos, msg \in ReceiveMsgs : Invoke(info, msg)

IAck ==
    /\ phase = "idle"
    /\ \E info \in GatewayInfos, msg \in AckMsgs : Invoke(info, msg)

ISend ==
    /\ phase = "idle"
    /\ \E info \in GatewayInfos, msg \in SendMsgs : Invoke(info, msg)

SetDappMetadata ==
    /\ phase = "idle"
    /\ \E info \in GatewayInfos, msg \in SetDappMetadataMsgs :
          Invoke(info, msg)

\* the gateway's nested execution ends; reply_on is Always, so the host
\* builds the Reply for a success and for a failure alike
GatewayReturns ==
    /\ phase = "dispatched"
    /\ \E g \in GatewayResults :
          /\ tx' = [tx EXCEPT
                      !.gw = Some(g),
                      !.reply = Some([id |-> Unwrap(tx.submsg).id,
                                      ok |-> g.ok, data |-> g.data,
                                      err |-> g.err])]
          /\ accepted' = IF tx.kind = "ISend" /\ g.ok THEN accepted + 1
                         ELSE accepted
          /\ last' = Last("Gateway", g, NoInfo, HOk(Store, EmptyResponse),
                          "pending", tx.kind, g.assigned)
    /\ phase' = "replying"
    /\ UNCHANGED <<CONFIG, NAME_RESOLVER, REQUEST, RESULT, PENDING, events,
                   nTx, delivered, lastEvent, lastInbound, lastData, codec>>

\* the identifier recorded for a reply that returned Ok: the one the
\* gateway assigned, or -1 if it assigned none
Delivered(assigned) == IF IsSome(assigned) THEN Unwrap(assigned) ELSE -1

\* the host delivers the Reply of the nested call to the reply entry point;
\* its result decides whether the whole invocation commits
DeliverReply ==
    /\ phase = "replying"
    /\ \E g \in {Unwrap(tx.gw)} : \E r \in {reply(Store, Env, Unwrap(tx.reply))} :
       /\ SetStore(Commit(tx.pre, r))
       /\ events' = IF r.ok THEN events \o tx.resp.events ELSE events
       /\ last' = Last("Reply", Unwrap(tx.reply), NoInfo, r,
                       IF r.ok THEN "committed" ELSE "aborted", tx.kind,
                       g.assigned)
       /\ delivered' = IF r.ok THEN Append(delivered, Delivered(g.assigned))
                       ELSE delivered
       /\ lastEvent' =
              IF r.ok /\ tx.kind = "ISend" THEN
                  Some([kind |-> "ISend",
                        buf |-> Unwrap(tx.submsg).msg.msg.request_packet])
              ELSE lastEvent
    /\ phase' = "idle"
    /\ tx' = NoTx
    /\ UNCHANGED <<nTx, accepted, lastInbound, lastData, codec>>

\* the reply entry point invoked with a tag no dispatch of this contract
\* carries
StrayReply ==
    /\ phase = "idle"
    /\ nTx < MaxTx
    /\ nTx' = nTx + 1
    /\ \E id \in UnknownTags, g \in StrayResults :
          \E msg \in {[id |-> id, ok |-> g.ok, data |-> g.data,
                        err |-> g.err]} :
          \E r \in {reply(Store, Env, msg)} :
          /\ SetStore(Commit(Store, r))
          /\ last' = Last("Reply", msg, NoInfo, r,
                          IF r.ok THEN "committed" ELSE "aborted", "",
                          g.assigned)
          /\ delivered' = IF r.ok
                          THEN Append(delivered, Delivered(g.assigned))
                          ELSE delivered
    /\ UNCHANGED <<codec, events, phase, tx, accepted, lastEvent, lastInbound,
                   lastData>>

\* one query invocation; Deps gives the handler no write access
Query ==
    /\ phase = "idle"
    /\ nTx < MaxTx
    /\ nTx' = nTx + 1
    /\ \E msg \in QueryMsgs :
          \E r \in {query(Store, Env, msg)} :
          /\ SetStore(r.store)
          /\ last' = Last("Query", msg, NoInfo, r,
                          IF r.ok THEN "committed" ELSE "aborted", "", None)
    /\ UNCHANGED <<codec, events, phase, tx, delivered, accepted, lastEvent,
                   lastInbound, lastData>>

Next ==
    \/ Register
    \/ Transfer
    \/ IReceive
    \/ IAck
    \/ ISend
    \/ SetDappMetadata
    \/ GatewayReturns
    \/ DeliverReply
    \/ StrayReply
    \/ Query

Spec == Init /\ [][Next]_vars

(***************************************************************************)
(* The codec on its own: helper.rs's functions applied to inputs drawn     *)
(* from bounded sets, the contract's storage left as instantiated.         *)
(***************************************************************************)
\* a byte string of a given length, its bytes varying with the position
ByteString(len, seed) == [i \in 1..len |-> (seed * 37 + i * 11) % 256]

\* payloads and strings: empty, one short of a word, a word, past a word,
\* two words and beyond
CodecBytes ==
    {ByteString(n, sd) : n \in {0, 1, 31, 32, 33, 64, 65}, sd \in {1, 2}}
    \cup {<<1, 2>>}

\* handler identifiers, "H" among them
CodecHandlers == {<<>>, <<72>>, HandlerH, ByteString(33, 3)}

\* 256-bit values as limbs: 0, 1, 2^64 + 1, 2^64 - 1, and one whose 32
\* bytes all differ
U256Values ==
    {U256_from(<<0>>), U256_from(<<1>>), U256_from(<<1, 0, 0, 0, 1>>),
     U256_from(<<65535, 65535, 65535, 65535>>),
     U256_from([i \in 1..16 |-> (2 * i - 1) * 256 + 2 * i])}

\* declared widths in bits
Widths == {8 * k : k \in 1..32}

\* u64 arguments: 0 and 0x0102030405060708
U64Values == {<<0, 0, 0, 0>>, <<258, 772, 1286, 1800>>}

\* u128 arguments: 0 and 2^64 + 1
U128Values ==
    {<<0, 0, 0, 0, 0, 0, 0, 0>>, <<0, 0, 0, 1, 0, 0, 0, 1>>}

CodecInit ==
    /\ \E msg \in {[purchase_price |-> None, transfer_price |-> None]} :
          SetStoreInit(Commit(EmptyStore, instantiate(EmptyStore, msg)))
    /\ events = <<>>
    /\ phase = "idle"
    /\ tx = NoTx
    /\ last = Last("Instantiate", <<>>, NoInfo, HOk(EmptyStore, EmptyResponse),
                   "committed", "", None)
    /\ nTx = 0
    /\ delivered = <<>>
    /\ accepted = 0
    /\ lastEvent = None
    /\ lastInbound = None
    /\ lastData = None
    /\ codec = NoCodec

\* one application of a codec function, outside any transaction: the call
\* and its result are recorded
Applied(fn, args, out) ==
    /\ codec' = [fn |-> fn, args |-> args, out |-> out, decoded |-> None]
    /\ UNCHANGED <<CONFIG, NAME_RESOLVER, REQUEST, RESULT, PENDING, events,
                   phase, tx, last, nTx, delivered, accepted, lastEvent,
                   lastInbound, lastData>>

RequestPacket ==
    \E h \in CodecHandlers, p \in CodecBytes :
        /\ phase = "idle"
        /\ Applied("get_request_packet", [handler_address |-> h, payload |-> p],
                get_request_packet(h, p))

EncodeString ==
    \E x \in CodecBytes :
        /\ phase = "idle"
        /\ Applied("abi_encode_string", [stri |-> x], abi_encode_string(x))

\* abi_decode_to_binary applied to the buffer just encoded
DecodeToBinary ==
    /\ codec.fn \in {"get_request_packet", "abi_encode_string"}
    /\ ~IsSome(codec.decoded)
    /\ codec' = [codec EXCEPT !.decoded = Some(abi_decode_to_binary(codec.out))]
    /\ UNCHANGED <<CONFIG, NAME_RESOLVER, REQUEST, RESULT, PENDING, events,
                   phase, tx, last, nTx, delivered, accepted, lastEvent,
                   lastInbound, lastData>>

Pack ==
    \E n \in U256Values, w \in Widths :
        /\ phase = "idle"
        /\ Applied("pack", [n |-> n, to_take |-> w],
                pack(SolidityDataType("NumberWithShift", n, w)))

RequestMetadata ==
    \E gl \in U64Values, gp \in {<<0, 0, 0, 0>>, <<0, 0, 0, 2>>},
       al \in {<<0, 0, 0, 0>>, <<0, 0, 3, 0>>},
       ap \in {<<0, 0, 0, 0>>, <<0, 4, 0, 0>>},
       rf \in U128Values, at \in {<<3>>, <<255>>}, rc \in BOOLEAN,
       asm \in {<<>>, HandlerH} :
        /\ phase = "idle"
        /\ Applied("get_request_metadata",
                [gas_limit |-> gl, gas_price |-> gp, ack_gas_limit |-> al,
                 ack_gas_price |-> ap, relayer_fees |-> rf, ack_type |-> at,
                 is_read_call |-> rc, asm_address |-> asm],
                get_request_metadata(gl, gp, al, ap, rf, at, rc, asm))

\* the funds sent along: up to two coins, of the priced denomination and
\* of others
SentCoins ==
    LET coins == {Coin(2, DenomToken), Coin(3, DenomToken),
                  Coin(5, DenomToken), Coin(10, DenomToken),
                  Coin(10, DenomOther)}
    IN {<<>>} \cup {<<c>> : c \in coins}
       \cup {<<c, d>> : c \in coins, d \in coins}

SufficientCoin ==
    \E sent \in SentCoins,
       required \in {None, Some(Coin(0, DenomToken)),
                      Some(Coin(5, DenomToken))} :
        /\ phase = "idle"
        /\ Applied("assert_sent_sufficient_coin",
                [sent |-> sent, required |-> required],
                assert_sent_sufficient_coin(sent, required))

CodecNext ==
    \/ RequestPacket
    \/ EncodeString
    \/ DecodeToBinary
    \/ Pack
    \/ RequestMetadata
    \/ SufficientCoin

CodecSpec == CodecInit /\ [][CodecNext]_vars

(***************************************************************************)
(* Properties.                                                             *)
(***************************************************************************)
\* a step that is a reply invocation carrying the tag ISEND_ID
IsSendReply(l) == l.op = "Reply" /\ l.msg.id = ISEND_ID

\* C1: starting from an empty ledger, the ledger is exactly the sequence of
\* the identifiers the gateway assigned in the replies that returned Ok, in
\* delivery order and with duplicates kept; a reply that ends in an error
\* leaves the ledger as it was.
C1_LedgerIsDeliveredIds ==
    /\ [](Ledger = delivered)
    /\ [][(last'.op = "Reply" /\ ~last'.ok) => Ledger' = Ledger]_vars

\* two replies carrying the same identifier have been correlated
C1_Witness ==
    /\ IsSendReply(last)
    /\ last.ok
    /\ Ledger = <<7, 7>>

\* C2: only a reply invocation that returns Ok changes the ledger; register,
\* transfer, receive, acknowledge, send, set_dapp_metadata and query leave
\* it unchanged, and every earlier value of the ledger is a prefix of every
\* later one.
C2_LedgerChangesOnlyInOkReply ==
    [][/\ IsPrefix(Ledger, Ledger')
       /\ (PENDING' # PENDING => (last'.op = "Reply" /\ last'.ok))
       /\ (last'.op \in {"Register", "Transfer", "IReceive", "IAck", "ISend",
                         "SetDappMetadata", "Query"}
              => PENDING' = PENDING)]_vars

\* an acknowledgement of an identifier that is in the ledger has succeeded
C2_Witness ==
    /\ last.op = "IAck"
    /\ last.ok
    /\ \E i \in 1..Len(Ledger) : Ledger[i] = last.msg.request_identifier

\* C3: the ledger holds no more identifiers than there were send dispatches
\* the gateway accepted (so a set_dapp_metadata continuation adds none).
C3_LedgerWithinAcceptedSends == Len(Ledger) <= accepted

\* C4: a reply whose tag is not ISEND_ID ends in an error, whatever it
\* carries, and changes no persistent state.
C4_UnknownTagRejected ==
    [][(last'.op = "Reply" /\ last'.msg.id # ISEND_ID)
          => (~last'.ok /\ Store' = Store /\ events' = events)]_vars

\* a reply with an unknown tag carrying a success with an identifier
C4_Witness ==
    /\ last.op = "Reply"
    /\ last.msg.id # ISEND_ID
    /\ last.msg.ok
    /\ IsSome(last.assigned)

\* C5: a reply with the tag ISEND_ID whose gateway result is not a success
\* carrying the JSON of a 64-bit identifier ends in an error or a panic,
\* never in Ok, and adds nothing to the ledger.
C5_BadResultIsFatal ==
    [][(IsSendReply(last') /\ ~IsSome(last'.assigned))
          => (~last'.ok /\ Ledger' = Ledger)]_vars

\* a reply to a success that carries an empty response has been handled
C5_Witness ==
    /\ IsSendReply(last)
    /\ last.msg.ok
    /\ last.msg.data = Some(<<>>)
    /\ ~last.ok

\* C6 (as stated): when the gateway's nested call of a send fails, the
\* event the send emitted is committed all the same.
C6_SendEffectsSurviveGatewayFailure ==
    [][(last'.op = "Reply" /\ last'.via = "ISend" /\ ~last'.msg.ok)
          => events' = events \o tx.resp.events]_vars

\* C6 (amended): when the gateway's nested call of a send fails, the reply
\* returns an error and the whole send invocation is rolled back: its event
\* is not committed and the storage is the one before the send; the send
\* handler itself writes neither audit snapshot.
C6_GatewayFailureAbortsSend ==
    [][/\ (last'.op = "Reply" /\ last'.via = "ISend" /\ ~last'.msg.ok)
            => (/\ ~last'.ok
                /\ events' = events
                /\ Store' = tx.pre
                /\ Store' = Store)
       /\ last'.op = "ISend" => (REQUEST' = REQUEST /\ RESULT' = RESULT)]_vars

\* the reply to a failed gateway call of a send has been handled
C6_Witness ==
    /\ last.op = "Reply"
    /\ last.via = "ISend"
    /\ ~last.msg.ok
    /\ last.outcome = "aborted"
    /\ events = <<>>

FirstIndex(b, c) ==
    CHOOSE i \in 1..(Len(b) + 1) :
        /\ (i = Len(b) + 1 \/ b[i] = c)
        /\ \A j \in 1..(i - 1) : b[j] # c

HexVal(c) == IF c <= 57 THEN c - 48 ELSE c - 87

UnHex(h) ==
    [i \in 1..(Len(h) \div 2) |->
        HexVal(h[2 * i - 1]) * 16 + HexVal(h[2 * i])]

BadAck == [address |-> <<>>, id |-> -1, status |-> FALSE, data |-> <<>>]

\* the four components read back out of the result data of an acknowledge:
\* the ABI string is decoded and the text split at its line breaks
ParseAck(out) ==
    LET text == abi_decode_to_binary(out) IN
    IF ~text.ok \/ ~IsPrefix(TxtAckAddress, text.v) THEN BadAck ELSE
    LET r1 == Drop(text.v, Len(TxtAckAddress))
        n1 == FirstIndex(r1, 10)
        r2 == Drop(r1, n1 - 1)
    IN
    IF ~IsPrefix(TxtAckIdentifier, r2) THEN BadAck ELSE
    LET r3 == Drop(r2, Len(TxtAckIdentifier))
        n3 == FirstIndex(r3, 10)
        r4 == Drop(r3, n3 - 1)
    IN
    IF ~IsPrefix(TxtAckStatus, r4) THEN BadAck ELSE
    LET r5 == Drop(r4, Len(TxtAckStatus))
        n5 == FirstIndex(r5, 10)
        status == SubSeq(r5, 1, n5 - 1)
        r6 == Drop(r5, n5 - 1)
    IN
    IF status \notin {TxtTrue, TxtFalse} \/ ~IsPrefix(TxtAckData, r6)
    THEN BadAck ELSE
    LET r7 == Drop(r6, Len(TxtAckData)) IN
    IF ~IsPrefix(TxtBinaryOpen, r7) \/ r7[Len(r7)] # 41 THEN BadAck ELSE
    [address |-> SubSeq(r1, 1, n1 - 1),
     id |-> DigitsValue(SubSeq(r3, 1, n3 - 1)),
     status |-> (status = TxtTrue),
     data |-> UnHex(SubSeq(r7, Len(TxtBinaryOpen) + 1, Len(r7) - 1))]

\* C9: the last-result snapshot is the result data of the most recent
\* successful register, transfer (direct or through receive) or
\* acknowledge; the data of an acknowledge is the ABI string of a text from
\* which the contract address, the identifier, the status flag and the
\* decoded exec_data can each be read back, so it differs when one of them
\* differs.
C9_ResultIsLatestData ==
    /\ RESULT = lastData
    /\ (last.op = "IAck" /\ last.ok)
          => /\ IsSome(last.data)
             /\ ParseAck(Unwrap(last.data)) =
                    [address |-> Env.contract_address,
                     id |-> last.msg.request_identifier,
                     status |-> last.msg.exec_status,
                     data |-> InboundBuffer(last.msg)]

\* an acknowledge succeeded after a register, and the snapshot holds the
\* acknowledge's data
C9_Witness ==
    /\ last.op = "IAck"
    /\ last.ok
    /\ DOMAIN NAME_RESOLVER # {}
    /\ RESULT = last.data

\* whether a packet decodes to an inner Register or Transfer message
Decodable(packet) ==
    /\ abi_decode_to_binary(packet).ok
    /\ from_binary_CustomExecuteMsg(abi_decode_to_binary(packet).v).ok

\* the message obtained by ABI-decoding and deserializing a packet
InnerMsg(packet) ==
    from_binary_CustomExecuteMsg(abi_decode_to_binary(packet).v).v

\* C10: a receive whose packet decodes to a Register or Transfer message
\* succeeds exactly when the direct invocation of that message by the same
\* caller with the same funds would, and then leaves the same name map and
\* last-result snapshot and returns the same data.
C10_ReceiveIsDirectInvocation ==
    [][(last'.op = "IReceive" /\ Decodable(last'.msg.packet)) =>
          LET d == execute(Store, Env, last'.info,
                           InnerMsg(last'.msg.packet))
          IN /\ last'.ok = d.ok
             /\ d.ok => /\ NAME_RESOLVER' = d.store.NAME_RESOLVER
                        /\ RESULT' = d.store.RESULT
                        /\ last'.data = d.resp.data]_vars

\* a receive carrying a Transfer has succeeded
C10_Witness ==
    /\ last.op = "IReceive"
    /\ last.ok
    /\ InnerMsg(last.msg.packet).type = "Transfer"

\* the variant name of an externally tagged JSON enum value: the first key
\* of the object, empty when the buffer is no such object
VariantTag(b) ==
    IF IsPrefix(<<123, 34>>, b) /\ TakeString(Drop(b, 2)).ok
    THEN TakeString(Drop(b, 2)).v.s
    ELSE <<>>

\* "register", "transfer"
BusinessTags ==
    {<<114, 101, 103, 105, 115, 116, 101, 114>>,
     <<116, 114, 97, 110, 115, 102, 101, 114>>}

\* C11: a receive whose packet decodes to an inner message that is no
\* Register and no Transfer (a send, receive or acknowledge message
\* included) ends in an error, never in a successful no-op, and changes no
\* state.
C11_UnknownInnerMessageFails ==
    [][(/\ last'.op = "IReceive"
        /\ abi_decode_to_binary(last'.msg.packet).ok
        /\ VariantTag(abi_decode_to_binary(last'.msg.packet).v)
              \notin BusinessTags)
          => (~last'.ok /\ Store' = Store)]_vars

\* a receive carrying an acknowledge message has been refused
C11_Witness ==
    /\ last.op = "IReceive"
    /\ abi_decode_to_binary(last.msg.packet).ok
    /\ abi_decode_to_binary(last.msg.packet).v = JsonIAckInner
    /\ ~last.ok

\* whether step l is a registration, direct or carried by a receive
IsRegistration(l) ==
    \/ l.op = "Register"
    \/ /\ l.op = "IReceive"
       /\ Decodable(l.msg.packet)
       /\ InnerMsg(l.msg.packet).type = "Register"

\* the name a registration step asks for
RegisteredName(l) ==
    IF l.op = "Register" THEN l.msg.name ELSE InnerMsg(l.msg.packet).name

\* whether the funds of a step cover the registration price
PaysPurchasePrice(l) ==
    assert_sent_sufficient_coin(l.info.funds,
                                Unwrap(CONFIG).purchase_price).ok

\* C12: registering a name that is already registered fails with NameTaken
\* and leaves the name map unchanged, for every caller and all funds that
\* pass the price check; a successful registration of a name makes the
\* invoking identity its owner, and happens only for a name not registered
\* before.
C12_RegisterTwiceIsNameTaken ==
    [][IsRegistration(last') =>
          LET name == RegisteredName(last') IN
          /\ (name \in DOMAIN NAME_RESOLVER /\ PaysPurchasePrice(last'))
                => /\ ~last'.ok
                   /\ last'.e.kind = "NameTaken"
                   /\ NAME_RESOLVER' = NAME_RESOLVER
          /\ last'.ok
                => /\ name \notin DOMAIN NAME_RESOLVER
                   /\ name \in DOMAIN NAME_RESOLVER'
                   /\ NAME_RESOLVER'[name].owner = last'.info.sender]_vars

\* a second registration of a name, by another identity that paid the
\* price, has been refused
C12_Witness ==
    /\ last.op = "Register"
    /\ last.e.kind = "NameTaken"
    /\ last.msg.name \in DOMAIN NAME_RESOLVER
    /\ NAME_RESOLVER[last.msg.name].owner # last.info.sender
    /\ IsSome(Unwrap(CONFIG).purchase_price)
    /\ last.info.funds # <<>>

\* whether step l is a transfer, direct or carried by a receive
IsTransfer(l) ==
    \/ l.op = "Transfer"
    \/ /\ l.op = "IReceive"
       /\ Decodable(l.msg.packet)
       /\ InnerMsg(l.msg.packet).type = "Transfer"

\* the Transfer message of a transfer step
TransferOf(l) ==
    IF l.op = "Transfer" THEN l.msg ELSE InnerMsg(l.msg.packet)

\* whether step l is a transfer of a registered name by an identity that is
\* not its owner
IsForeignTransfer(l) ==
    /\ IsTransfer(l)
    /\ TransferOf(l).name \in DOMAIN NAME_RESOLVER
    /\ NAME_RESOLVER[TransferOf(l).name].owner # l.info.sender

\* C13 (as stated): a transfer of a registered name by any identity other
\* than its owner fails with Unauthorized and leaves the name map and the
\* last-result snapshot unchanged.
C13_ForeignTransferIsUnauthorized ==
    [][IsForeignTransfer(last') =>
          /\ ~last'.ok
          /\ last'.e.kind = "Unauthorized"
          /\ NAME_RESOLVER' = NAME_RESOLVER
          /\ RESULT' = RESULT]_vars

\* C13 (amended): a transfer of a registered name by any identity other
\* than its owner fails and leaves the name map and the last-result
\* snapshot unchanged; the error is Unauthorized when the funds pass the
\* transfer price check and the new owner is a valid address, the error of
\* the price check or of the address validation otherwise.
C13_ForeignTransferFails ==
    [][IsForeignTransfer(last') =>
          LET paid == assert_sent_sufficient_coin(
                          last'.info.funds, Unwrap(CONFIG).transfer_price)
              valid == addr_validate(TransferOf(last').to)
          IN
          /\ ~last'.ok
          /\ NAME_RESOLVER' = NAME_RESOLVER
          /\ RESULT' = RESULT
          /\ last'.e = (IF ~paid.ok THEN paid.e
                        ELSE IF ~valid.ok THEN valid.e
                        ELSE Error("Unauthorized", "", <<>>))]_vars

\* a transfer by an identity that is not the owner has been refused as
\* unauthorized
C13_Witness ==
    /\ last.op = "Transfer"
    /\ last.e.kind = "Unauthorized"
    /\ last.msg.name \in DOMAIN NAME_RESOLVER
    /\ NAME_RESOLVER[last.msg.name].owner # last.info.sender

\* C14: a query (resolve record, config, last request) leaves the persistent
\* state and the committed events as they were, whether it succeeds or
\* fails.
C14_QueryChangesNothing ==
    [][last'.op = "Query" => (Store' = Store /\ events' = events)]_vars

\* the last request has been queried after a receive or an acknowledge
\* stored one
C14_Witness ==
    /\ last.op = "Query"
    /\ last.msg.type = "Request"
    /\ last.ok
    /\ IsSome(REQUEST)
    /\ last.data = Some(to_binary_string(to_base64(Unwrap(REQUEST))))

\* C15: no execute, reply or query invocation changes the Config: in every
\* reachable state it is the value instantiate saved, a record of the two
\* prices.
C15_ConfigNeverChanges ==
    /\ [][CONFIG' = CONFIG]_vars
    /\ [](IsSome(CONFIG) /\ Unwrap(CONFIG) \in InstantiateMsgs)

\* a paid registration and a paid transfer have both committed under a
\* config with prices
C15_Witness ==
    /\ IsSome(Unwrap(CONFIG).purchase_price)
    /\ last.op = "Transfer"
    /\ last.ok
    /\ nTx = 2

C17_SingleBytesRoundTrip ==
    (codec.fn = "abi_encode_string" /\ IsSome(codec.decoded))
        => Unwrap(codec.decoded) = Ok(codec.args.stri)

\* a string of 33 bytes has been encoded and decoded
C17_Witness ==
    /\ codec.fn = "abi_encode_string"
    /\ Len(codec.args.stri) = 33
    /\ Len(codec.out) = 128
    /\ codec.decoded = Some(Ok(codec.args.stri))

\* byte k of a 256-bit value, byte 0 the least significant
ByteOfU256(n, k) ==
    LET digit == n[(k \div 8) + 1][4 - ((k % 8) \div 2)]
    IN IF k % 2 = 0 THEN digit % 256 ELSE digit \div 256

\* C18: the packed encoding of a 256-bit number n with a declared width of
\* w bits (a multiple of 8 from 8 to 256) is w/8 bytes long and is the
\* big-endian representation of n mod 2^w: its byte i is byte w/8 - i of n,
\* whatever the higher bytes of n hold.
C18_PackKeepsLowBytes ==
    codec.fn = "pack" =>
        /\ Len(codec.out) = codec.args.to_take \div 8
        /\ \A i \in 1..Len(codec.out) :
              codec.out[i] =
                  ByteOfU256(codec.args.n, (codec.args.to_take \div 8) - i)

\* 2^64 + 1 has been packed in 64 bits
C18_Witness ==
    /\ codec.fn = "pack"
    /\ codec.args.n = U256_from(<<1, 0, 0, 0, 1>>)
    /\ codec.args.to_take = 64
    /\ codec.out = <<0, 0, 0, 0, 0, 0, 0, 1>>

\* the low `n` bytes, big-endian, of a number given by its base-65536
\* digits
BytesBE(x, n) ==
    LET all == [i \in 1..(2 * Len(x)) |->
                   IF i % 2 = 1 THEN x[(i + 1) \div 2] \div 256
                   ELSE x[i \div 2] % 256]
    IN SubSeq(all, Len(all) - n + 1, Len(all))

\* C19: the output of get_request_metadata is gas_limit (8 bytes),
\* gas_price (8), ack_gas_limit (8), ack_gas_price (8), relayer_fees (16),
\* ack_type (1), is_read_call (1 byte, 0 or 1) and the bytes of asm_address,
\* in this order, big-endian, 50 + len(asm_address) bytes in all.
C19_MetadataLayout ==
    codec.fn = "get_request_metadata" =>
        LET a == codec.args IN
        /\ Len(codec.out) = 50 + Len(a.asm_address)
        /\ codec.out =
              BytesBE(a.gas_limit, 8) \o BytesBE(a.gas_price, 8)
              \o BytesBE(a.ack_gas_limit, 8) \o BytesBE(a.ack_gas_price, 8)
              \o BytesBE(a.relayer_fees, 16) \o BytesBE(a.ack_type, 1)
              \o <<IF a.is_read_call THEN 1 ELSE 0>> \o a.asm_address

\* metadata with a relayer fee of 2^64 + 1 and a handler address has been
\* built
C19_Witness ==
    /\ codec.fn = "get_request_metadata"
    /\ codec.args.relayer_fees = <<0, 0, 0, 1, 0, 0, 0, 1>>
    /\ codec.args.asm_address = HandlerH
    /\ codec.args.is_read_call
    /\ Len(codec.out) = 50 + Len(HandlerH)

\* C20: a send or set_dapp_metadata invocation that returns success issues
\* exactly one nested call, to the gateway it was given, tagged ISEND_ID and
\* replying on success and on failure, and itself writes nothing to the
\* ledger, the name map or the config; the nested call's outcome, success or
\* failure, is followed by one reply invocation carrying that tag, and no
\* reply with that tag occurs otherwise.
C20_DispatchIsOneTaggedCall ==
    [][/\ (last'.op \in {"ISend", "SetDappMetadata"} /\ last'.ok)
            => /\ phase' = "dispatched"
               /\ Len(tx'.resp.messages) = 1
               /\ tx'.resp.messages[1].id = ISEND_ID
               /\ tx'.resp.messages[1].reply_on = "Always"
               /\ tx'.resp.messages[1].msg.contract_addr
                     = last'.msg.gateway_address
               /\ PENDING' = PENDING
               /\ NAME_RESOLVER' = NAME_RESOLVER
               /\ CONFIG' = CONFIG
       /\ phase = "dispatched"
            => /\ phase' = "replying"
               /\ Unwrap(tx'.reply).id = Unwrap(tx.submsg).id
               /\ Unwrap(tx'.reply).ok = Unwrap(tx'.gw).ok
       /\ phase = "replying"
            => /\ last'.op = "Reply"
               /\ last'.msg = Unwrap(tx.reply)
               /\ last'.msg.id = ISEND_ID
               /\ phase' = "idle"
       /\ (last'.op = "Reply" /\ last'.msg.id = ISEND_ID)
            => phase = "replying"]_vars

\* the reply to a failed gateway call of set_dapp_metadata has been handled
C20_Witness ==
    /\ last.op = "Reply"
    /\ last.via = "SetDappMetadata"
    /\ last.msg.id = ISEND_ID
    /\ ~last.msg.ok
    /\ phase = "idle"

\* C21 (as stated): a registered name is never removed, and the owner of a
\* name changes only in a successful Transfer invocation by its current
\* owner, to the address the transfer names; no register, receive,
\* acknowledge, send, reply or query changes the owner of an existing
\* record.
C21_OwnerChangesOnlyInTransfer ==
    [][\A n \in DOMAIN NAME_RESOLVER :
          /\ n \in DOMAIN NAME_RESOLVER'
          /\ NAME_RESOLVER'[n].owner # NAME_RESOLVER[n].owner
                => /\ last'.op = "Transfer"
                   /\ last'.ok
                   /\ last'.msg.name = n
                   /\ last'.info.sender = NAME_RESOLVER[n].owner
                   /\ NAME_RESOLVER'[n].owner = last'.msg.to]_vars

\* C21 (amended): a registered name is never removed, and the owner of a
\* name changes only in a successful transfer of that name, invoked directly
\* or delegated from a receive, whose invoker is the current owner, to the
\* address the transfer names; no register, receive carrying a register,
\* acknowledge, send, reply or query changes the owner of an existing
\* record.
C21_OwnerChangesOnlyInOwnersTransfer ==
    [][\A n \in DOMAIN NAME_RESOLVER :
          /\ n \in DOMAIN NAME_RESOLVER'
          /\ NAME_RESOLVER'[n].owner # NAME_RESOLVER[n].owner
                => /\ IsTransfer(last')
                   /\ last'.ok
                   /\ TransferOf(last').name = n
                   /\ last'.info.sender = NAME_RESOLVER[n].owner
                   /\ NAME_RESOLVER'[n].owner = TransferOf(last').to]_vars

\* a transfer delegated from a receive has given a name to another owner
C21_Witness ==
    /\ last.op = "IReceive"
    /\ last.ok
    /\ IsTransfer(last)
    /\ TransferOf(last).name \in DOMAIN NAME_RESOLVER
    /\ NAME_RESOLVER[TransferOf(last).name].owner = TransferOf(last).to
    /\ TransferOf(last).to # last.info.sender

\* source chains and remote senders other receives could name
OtherSources ==
    {[src_chain_id |-> ChainId, request_sender |-> AddrBob],
     [src_chain_id |-> <<>>, request_sender |-> RemoteSender],
     [src_chain_id |-> <<>>, request_sender |-> <<>>]}

\* C22: the source chain and the remote sender of a receive do not influence
\* it: from the same state, with the same caller, funds and packet, a
\* receive naming any other source chain and sender has the same result
\* (success or the same error, the same data, events and messages) and
\* leaves the same state; a name registered through a receive is owned by
\* the caller of the receive, and a transfer delegated from a receive
\* succeeds only if that caller is the owner.
C22_ReceiveIgnoresSource ==
    [][last'.op = "IReceive" =>
          /\ \A o \in OtherSources :
                \A r \in {execute(Store, Env, last'.info,
                                  [last'.msg EXCEPT
                                      !.src_chain_id = o.src_chain_id,
                                      !.request_sender = o.request_sender])} :
                   /\ r.ok = last'.ok
                   /\ r.e = last'.e
                   /\ r.resp.data = last'.data
                   /\ r.ok => (r.resp.events = <<>> /\ r.resp.messages = <<>>)
                   /\ Commit(Store, r) = Store'
          /\ (last'.ok /\ IsRegistration(last'))
                => NAME_RESOLVER'[RegisteredName(last')].owner
                      = last'.info.sender
          /\ (last'.ok /\ IsTransfer(last'))
                => NAME_RESOLVER[TransferOf(last').name].owner
                      = last'.info.sender]_vars

\* a receive naming one identity as the remote sender has registered a name
\* for the other identity, its caller
C22_Witness ==
    /\ last.op = "IReceive"
    /\ last.ok
    /\ IsRegistration(last)
    /\ last.msg.request_sender = AddrAlice
    /\ last.info.sender = AddrBob
    /\ NAME_RESOLVER[RegisteredName(last)].owner = AddrBob

\* whether step l is a transfer of a name that has no record
IsTransferOfFreeName(l) ==
    IsTransfer(l) /\ TransferOf(l).name \notin DOMAIN NAME_RESOLVER

\* C23 (as stated): a transfer of a name that has no record fails with
\* NameNotExists for every caller and target address, and leaves the name
\* map and the last-result snapshot unchanged.
C23_FreeNameTransferIsNameNotExists ==
    [][IsTransferOfFreeName(last') =>
          /\ ~last'.ok
          /\ last'.e.kind = "NameNotExists"
          /\ NAME_RESOLVER' = NAME_RESOLVER
          /\ RESULT' = RESULT]_vars

\* C23 (amended): a transfer of a name that has no record fails for every
\* caller and target address, creates no record for that name and leaves
\* every other record and the last-result snapshot unchanged; the error is
\* NameNotExists when the funds pass the transfer price check and the
\* target is a valid address, the error of the price check or of the
\* address validation otherwise.
C23_FreeNameTransferFails ==
    [][IsTransferOfFreeName(last') =>
          LET paid == assert_sent_sufficient_coin(
                          last'.info.funds, Unwrap(CONFIG).transfer_price)
              valid == addr_validate(TransferOf(last').to)
          IN
          /\ ~last'.ok
          /\ NAME_RESOLVER' = NAME_RESOLVER
          /\ RESULT' = RESULT
          /\ last'.e = (IF ~paid.ok THEN paid.e
                        ELSE IF ~valid.ok THEN valid.e
                        ELSE Error("NameNotExists", "",
                                   TransferOf(last').name))]_vars

\* a transfer of a name without a record has been refused while another
\* name has one
C23_Witness ==
    /\ last.op = "Transfer"
    /\ last.e.kind = "NameNotExists"
    /\ last.msg.name \notin DOMAIN NAME_RESOLVER
    /\ DOMAIN NAME_RESOLVER # {}
    /\ IsSome(RESULT)

\* the coins of `sent` that have the required denomination and at least
\* the required amount
CoveringCoins(sent, required) ==
    {i \in DOMAIN sent : /\ sent[i].denom = Unwrap(required).denom
                         /\ sent[i].amount >= Unwrap(required).amount}

\* C24: assert_sent_sufficient_coin succeeds exactly when no price is
\* required, or the required amount is 0, or some single sent coin has the
\* required denomination and at least the required amount, and fails with
\* InsufficientFundsSend otherwise: coins of other denominations do not
\* count and the amounts of several coins are not added.
C24_SufficientCoinIsOneCoin ==
    codec.fn = "assert_sent_sufficient_coin" =>
        LET sent == codec.args.sent
            required == codec.args.required
            enough == \/ ~IsSome(required)
                      \/ Unwrap(required).amount = 0
                      \/ CoveringCoins(sent, required) # {}
        IN /\ codec.out.ok = enough
           /\ ~enough
                => codec.out = Err(Error("InsufficientFundsSend", "", <<>>))

\* two coins of the required denomination whose sum reaches the price, and
\* neither alone, have been refused
C24_Witness ==
    /\ codec.fn = "assert_sent_sufficient_coin"
    /\ codec.args.sent = <<Coin(2, DenomToken), Coin(3, DenomToken)>>
    /\ codec.args.required = Some(Coin(5, DenomToken))
    /\ ~codec.out.ok

====
